---- MODULE Spec2Model ----
(***************************************************************************)
(* Model of geozero's WKB reader (src/geozero/src/wkb/wkb_reader.rs): the  *)
(* three header decoders and the recursive walker that drives a            *)
(* GeomProcessor.                                                          *)
(*                                                                         *)
(* Numbers wider than 31 bits do not fit a TLC integer, so a u32, an i32   *)
(* and an f64 are kept as the tuple of their bytes, most significant byte  *)
(* first ("digits").  Reading with an endianness turns stream bytes into   *)
(* digits; the arithmetic the code does on a type code (% 1000, / 1000,    *)
(* & 0xFF, bit tests) is done on the digits, exactly.                      *)
(***************************************************************************)
EXTENDS Integers, Sequences, FiniteSets, TLC

VARIABLES
    geom,   \* the value under decode: [dialect, bytes] (Wkb / Ewkb / GpkgWkb)
    proc,   \* the GeomProcessor the caller drives
    out     \* what the latest process_geom call did (NoRun before the first)

vars == <<geom, proc, out>>

----------------------------------------------------------------------------
(* Bytes and digits *)

Reverse(s) == [i \in 1..Len(s) |-> s[Len(s) + 1 - i]]

\* WKBByteOrder::Xdr as u8
Xdr == 0

\* scroll: bytes of the stream, read with an endianness, as digits
FromStream(bytes, endian) == IF endian = "BE" THEN bytes ELSE Reverse(bytes)

\* type_id % 1000 on the digits <<b3, b2, b1, b0>>
Mod1000(d) == (d[1] * 216 + d[2] * 536 + d[3] * 256 + d[4]) % 1000

\* type_id / 1000 on the digits, by long division on 16-bit halves
Div1000(d) ==
    LET hi == d[1] * 256 + d[2]
        lo == d[3] * 256 + d[4]
    IN  (hi \div 1000) * 65536 + (((hi % 1000) * 65536 + lo) \div 1000)

\* type_id & 0xFF
LowByte(d) == d[4]

\* type_id & mask == mask for the one-bit masks 0x80000000, 0x40000000, 0x20000000
HasBit31(d) == d[1] \div 128 = 1
HasBit30(d) == (d[1] \div 64) % 2 = 1
HasBit29(d) == (d[1] \div 32) % 2 = 1

\* i < n for a loop index i and a u32 count n (as usize)
LtCount(i, n) ==
    IF n[1] >= 128 THEN TRUE
    ELSE i < ((n[1] * 256 + n[2]) * 256 + n[3]) * 256 + n[4]

\* the u32 digits of a small number
U32(n) == <<0, 0, n \div 256, n % 256>>

----------------------------------------------------------------------------
(* WKBGeometryType::from_u32 *)

from_u32(code) ==
    CASE code = 1  -> "Point"
      [] code = 2  -> "LineString"
      [] code = 3  -> "Polygon"
      [] code = 4  -> "MultiPoint"
      [] code = 5  -> "MultiLineString"
      [] code = 6  -> "MultiPolygon"
      [] code = 7  -> "GeometryCollection"
      [] code = 8  -> "CircularString"
      [] code = 9  -> "CompoundCurve"
      [] code = 10 -> "CurvePolygon"
      [] code = 11 -> "MultiCurve"
      [] code = 12 -> "MultiSurface"
      [] code = 15 -> "PolyhedralSurface"
      [] code = 16 -> "Tin"
      [] code = 17 -> "Triangle"
      [] OTHER     -> "Unknown"

----------------------------------------------------------------------------
(* The byte source and the walk's log.                                     *)
(* A walk state st holds the byte source (buf, pos), the Processor, the    *)
(* result so far (res) and the log of what was done: every read, every     *)
(* decoded header and every Processor call, in order.                      *)

NoInfo ==
    [endian |-> "LE", base_type |-> "Unknown", has_z |-> FALSE, has_m |-> FALSE,
     srid |-> <<>>, envelope |-> <<>>]

Start(bytes, p) ==
    [buf |-> bytes, pos |-> 0, proc |-> p, res |-> "Ok", log |-> <<>>,
     ncalls |-> 0, nqueries |-> 0]

Ev(fn, params) == [fn |-> fn, params |-> params]

\* return Err(GeozeroError::GeometryFormat)
GeometryFormat(st) ==
    [st EXCEPT !.res = "GeometryFormat", !.log = Append(@, Ev("Err", <<"GeometryFormat">>))]

\* a reader that reports a short read as a malformed geometry
ioread_with_bad(st, n, endian) ==
    IF st.pos + n > Len(st.buf)
    THEN [st  |-> GeometryFormat([st EXCEPT !.pos = Len(st.buf)]), val |-> <<>>]
    ELSE [st  |-> [st EXCEPT !.pos = @ + n,
                             !.log = Append(@, Ev("ioread", <<st.pos, n, endian>>))],
          val |-> FromStream(SubSeq(st.buf, st.pos + 1, st.pos + n), endian)]

\* raw.ioread_with::<T>(endian) for a T of n bytes: the digits in val, or the
\* I/O error when fewer than n bytes are left
ioread_with(st, n, endian) ==
    IF st.pos + n > Len(st.buf)
    THEN [st  |-> [st EXCEPT !.res = "Io", !.pos = Len(st.buf),
                             !.log = Append(@, Ev("Err", <<"Io">>))],
          val |-> <<>>]
    ELSE [st  |-> [st EXCEPT !.pos = @ + n,
                             !.log = Append(@, Ev("ioread", <<st.pos, n, endian>>))],
          val |-> FromStream(SubSeq(st.buf, st.pos + 1, st.pos + n), endian)]

\* raw.ioread::<u8>()
ioread_u8(st) ==
    LET as_u8(r) == [st |-> r.st, val |-> IF r.val = <<>> THEN 0 ELSE r.val[1]]
    IN  as_u8(ioread_with(st, 1, "LE"))

----------------------------------------------------------------------------
(* The Processor: a call is logged, and fails when it is the failAt-th     *)
(* fallible call; multi_dim() answers multi, and the opposite once flipAt  *)
(* queries have been answered (flipAt = 0: never).                         *)

Call(st, fn, params) ==
    LET n == st.ncalls + 1 IN
    IF n = st.proc.failAt
    THEN [st EXCEPT !.ncalls = n, !.res = "Processor",
                    !.log = @ \o <<Ev(fn, params), Ev("Err", <<"Processor">>)>>]
    ELSE [st EXCEPT !.ncalls = n, !.log = Append(@, Ev(fn, params))]

multi_dim_value(st) ==
    IF st.proc.flipAt > 0 /\ st.nqueries >= st.proc.flipAt
    THEN ~st.proc.multi ELSE st.proc.multi

multi_dim(st) ==
    [st EXCEPT !.nqueries = @ + 1, !.log = Append(@, Ev("multi_dim", <<multi_dim_value(st)>>))]

----------------------------------------------------------------------------
(* Header decoders.                                                        *)
(* A function body is written as the code runs: each step's result is      *)
(* handed to the rest of the body, which returns at once when the step     *)
(* failed (the code's `?`).                                                *)

LogHeader(st, fn, at, info) ==
    [st EXCEPT !.log = Append(@, Ev(fn, <<at, info>>))]

read_wkb_header(st) ==
    LET with_byte_order(r1) ==
            IF r1.st.res # "Ok" THEN [st |-> r1.st, info |-> NoInfo] ELSE
            LET byte_order == r1.val
                endian == IF byte_order = Xdr THEN "BE" ELSE "LE"
                with_type_id(r2) ==
                    IF r2.st.res # "Ok" THEN [st |-> r2.st, info |-> NoInfo] ELSE
                    LET type_id == r2.val
                        base_type == from_u32(Mod1000(type_id))
                        type_id_dim == Div1000(type_id)
                        has_z == type_id_dim = 1 \/ type_id_dim = 3
                        has_m == type_id_dim = 2 \/ type_id_dim = 3
                        info == [endian |-> endian, base_type |-> base_type,
                                 has_z |-> has_z, has_m |-> has_m,
                                 srid |-> <<>>, envelope |-> <<>>]
                    IN  [st |-> LogHeader(r2.st, "read_wkb_header", st.pos, info),
                         info |-> info]
            IN  with_type_id(ioread_with(r1.st, 4, endian))
    IN  with_byte_order(ioread_u8(st))

read_ewkb_header(st) ==
    LET some(r) == [st |-> r.st, val |-> <<r.val>>]
        with_byte_order(r1) ==
            IF r1.st.res # "Ok" THEN [st |-> r1.st, info |-> NoInfo] ELSE
            LET byte_order == r1.val
                endian == IF byte_order = Xdr THEN "BE" ELSE "LE"
                with_type_id(r2) ==
                    IF r2.st.res # "Ok" THEN [st |-> r2.st, info |-> NoInfo] ELSE
                    LET type_id == r2.val
                        base_type == from_u32(LowByte(type_id))
                        has_z == HasBit31(type_id)
                        has_m == HasBit30(type_id)
                        with_srid(r3) ==
                            IF r3.st.res # "Ok" THEN [st |-> r3.st, info |-> NoInfo] ELSE
                            LET srid == r3.val
                                info == [endian |-> endian, base_type |-> base_type,
                                         has_z |-> has_z, has_m |-> has_m,
                                         srid |-> srid, envelope |-> <<>>]
                            IN  [st |-> LogHeader(r3.st, "read_ewkb_header", st.pos, info),
                                 info |-> info]
                    IN  with_srid(IF HasBit29(type_id)
                                  THEN some(ioread_with(r2.st, 4, endian))
                                  ELSE [st |-> r2.st, val |-> <<>>])
            IN  with_type_id(ioread_with(r1.st, 4, endian))
    IN  with_byte_order(ioread_u8(st))

env_len_of_bad(flags) ==
    LET code == (flags \div 2) % 8 IN
    CASE code = 0 -> 0
      [] code = 1 -> 4
      [] code = 2 -> 6
      [] code = 3 -> 6
      [] OTHER    -> 8

\* match (flags & 0b0000_1110) >> 1 { 0 => 0, 1 => 4, 2 => 6, 3 => 6, 4 => 8, _ => Err }
\* (-1 stands for the error arm)
env_len_of(flags) ==
    LET code == (flags \div 2) % 8 IN
    CASE code = 0 -> 0
      [] code = 1 -> 4
      [] code = 2 -> 6
      [] code = 3 -> 6
      [] code = 4 -> 8
      [] OTHER    -> -1

\* &magic != b"GP", negated
IsGpkgMagic_bad(magic) == magic[1] = 71
IsGpkgMagic(magic) == magic = <<71, 80>>

\* if flags & 0b0000_0001 == 0 { scroll::BE } else { scroll::LE }
gpkg_endian_bad(flags) == IF (flags \div 2) % 2 = 0 THEN "BE" ELSE "LE"
gpkg_endian(flags) == IF flags % 2 = 0 THEN "BE" ELSE "LE"

\* (0..env_len).map(|_| raw.ioread_with::<f64>(endian)).collect()
RECURSIVE read_envelope(_, _, _, _)
read_envelope(st, endian, env_len, acc) ==
    IF Len(acc) >= env_len THEN [st |-> st, val |-> acc] ELSE
    LET next(r) ==
            IF r.st.res # "Ok" THEN [st |-> r.st, val |-> acc]
            ELSE read_envelope(r.st, endian, env_len, Append(acc, r.val))
    IN  next(ioread_with(st, 8, endian))

read_gpkg_header(st) ==
    LET m1 == ioread_u8(st) IN
    IF m1.st.res # "Ok" THEN [st |-> m1.st, info |-> NoInfo] ELSE
    LET m2 == ioread_u8(m1.st) IN
    IF m2.st.res # "Ok" THEN [st |-> m2.st, info |-> NoInfo] ELSE
    LET magic == <<m1.val, m2.val>> IN
    IF ~IsGpkgMagic(magic) THEN [st |-> GeometryFormat(m2.st), info |-> NoInfo] ELSE
    LET r3 == ioread_u8(m2.st) IN
    IF r3.st.res # "Ok" THEN [st |-> r3.st, info |-> NoInfo] ELSE
    LET r4 == ioread_u8(r3.st) IN
    IF r4.st.res # "Ok" THEN [st |-> r4.st, info |-> NoInfo] ELSE
    LET flags == r4.val
        env_len == env_len_of(flags)
    IN
    IF env_len < 0 THEN [st |-> GeometryFormat(r4.st), info |-> NoInfo] ELSE
    LET endian == gpkg_endian(flags)
        r5 == ioread_with(r4.st, 4, endian)
    IN
    IF r5.st.res # "Ok" THEN [st |-> r5.st, info |-> NoInfo] ELSE
    LET srid == r5.val
        r6 == read_envelope(r5.st, endian, env_len, <<>>)
    IN
    IF r6.st.res # "Ok" THEN [st |-> r6.st, info |-> NoInfo] ELSE
    LET envelope == r6.val
        r7 == read_wkb_header(r6.st)
    IN
    IF r7.st.res # "Ok" THEN [st |-> r7.st, info |-> NoInfo] ELSE
    LET ogc_info == r7.info
        info == [endian |-> endian, base_type |-> ogc_info.base_type,
                 has_z |-> ogc_info.has_z, has_m |-> ogc_info.has_m,
                 srid |-> <<srid>>, envelope |-> envelope]
    IN  [st |-> LogHeader(r7.st, "read_gpkg_header", st.pos, info), info |-> info]

\* read_header: fn(&mut R) -> Result<WkbInfo>, called through the pointer
call_read_header(read_header, st) ==
    IF read_header = "read_ewkb_header" THEN read_ewkb_header(st) ELSE read_wkb_header(st)

----------------------------------------------------------------------------
(* The walker's helpers *)

\* reads z and m only when the Processor wants them
process_coord_bad(st, info, multi, idx) ==
    LET some(r) == [st |-> r.st, val |-> <<r.val>>]
        with_x(rx) ==
            IF rx.st.res # "Ok" THEN rx.st ELSE
            LET with_y(ry) ==
                    IF ry.st.res # "Ok" THEN ry.st ELSE
                    IF ~multi THEN Call(ry.st, "xy", <<rx.val, ry.val, idx>>) ELSE
                    LET with_z(rz) ==
                            IF rz.st.res # "Ok" THEN rz.st ELSE
                            LET with_m(rm) ==
                                    IF rm.st.res # "Ok" THEN rm.st ELSE
                                    Call(rm.st, "coordinate",
                                         <<rx.val, ry.val, rz.val, rm.val, <<>>, <<>>, idx>>)
                            IN  with_m(IF info.has_m
                                       THEN some(ioread_with(rz.st, 8, info.endian))
                                       ELSE [st |-> rz.st, val |-> <<>>])
                    IN  with_z(IF info.has_z
                               THEN some(ioread_with(ry.st, 8, info.endian))
                               ELSE [st |-> ry.st, val |-> <<>>])
            IN  with_y(ioread_with(rx.st, 8, info.endian))
    IN  with_x(ioread_with(st, 8, info.endian))

process_coord(st, info, multi, idx) ==
    LET some(r) == [st |-> r.st, val |-> <<r.val>>]
        with_x(rx) ==
            IF rx.st.res # "Ok" THEN rx.st ELSE
            LET with_y(ry) ==
                    IF ry.st.res # "Ok" THEN ry.st ELSE
                    LET with_z(rz) ==
                            IF rz.st.res # "Ok" THEN rz.st ELSE
                            LET with_m(rm) ==
                                    IF rm.st.res # "Ok" THEN rm.st ELSE
                                    IF multi
                                    THEN Call(rm.st, "coordinate",
                                              <<rx.val, ry.val, rz.val, rm.val, <<>>, <<>>, idx>>)
                                    ELSE Call(rm.st, "xy", <<rx.val, ry.val, idx>>)
                            IN  with_m(IF info.has_m
                                       THEN some(ioread_with(rz.st, 8, info.endian))
                                       ELSE [st |-> rz.st, val |-> <<>>])
                    IN  with_z(IF info.has_z
                               THEN some(ioread_with(ry.st, 8, info.endian))
                               ELSE [st |-> ry.st, val |-> <<>>])
            IN  with_y(ioread_with(rx.st, 8, info.endian))
    IN  with_x(ioread_with(st, 8, info.endian))

\* the second iteration emits a coordinate without reading one
RECURSIVE coords_loop_bad(_, _, _, _, _)
coords_loop_bad(st, info, multi, i, length) ==
    IF ~LtCount(i, length) THEN st ELSE
    LET next(s1) == IF s1.res # "Ok" THEN s1 ELSE coords_loop_bad(s1, info, multi, i + 1, length)
    IN  next(IF i = 1 THEN Call(st, "xy", <<<<>>, <<>>, i>>) ELSE process_coord(st, info, multi, i))

\* for i in 0..length { process_coord(raw, info, multi, i, processor)?; }
RECURSIVE coords_loop(_, _, _, _, _)
coords_loop(st, info, multi, i, length) ==
    IF ~LtCount(i, length) THEN st ELSE
    LET next(s1) == IF s1.res # "Ok" THEN s1 ELSE coords_loop(s1, info, multi, i + 1, length)
    IN  next(process_coord(st, info, multi, i))

\* calls linestring_end also when a coordinate failed
process_linestring_noabort(st, info, tagged, idx) ==
    LET r == ioread_with(st, 4, info.endian) IN
    IF r.st.res # "Ok" THEN r.st ELSE
    LET length == r.val
        s1 == Call(r.st, "linestring_begin", <<tagged, length, idx>>)
    IN
    IF s1.res # "Ok" THEN s1 ELSE
    LET s2 == multi_dim(s1)
        multi == multi_dim_value(s1)
        after_loop(s3) == Call(s3, "linestring_end", <<tagged, idx>>)
    IN  after_loop(coords_loop(s2, info, multi, 0, length))

process_linestring(st, info, tagged, idx) ==
    LET r == ioread_with(st, 4, info.endian) IN
    IF r.st.res # "Ok" THEN r.st ELSE
    LET length == r.val
        s1 == Call(r.st, "linestring_begin", <<tagged, length, idx>>)
    IN
    IF s1.res # "Ok" THEN s1 ELSE
    LET s2 == multi_dim(s1)
        multi == multi_dim_value(s1)
        after_loop(s3) == IF s3.res # "Ok" THEN s3 ELSE Call(s3, "linestring_end", <<tagged, idx>>)
    IN  after_loop(coords_loop(s2, info, multi, 0, length))

\* asks for the preference before the begin call
process_circularstring_early(st, info, idx) ==
    LET r == ioread_with(st, 4, info.endian) IN
    IF r.st.res # "Ok" THEN r.st ELSE
    LET length == r.val
        s0 == multi_dim(r.st)
        multi == multi_dim_value(r.st)
        s1 == Call(s0, "circularstring_begin", <<length, idx>>)
    IN
    IF s1.res # "Ok" THEN s1 ELSE
    LET after_loop(s3) == IF s3.res # "Ok" THEN s3 ELSE Call(s3, "circularstring_end", <<idx>>)
    IN  after_loop(coords_loop(s1, info, multi, 0, length))

process_circularstring(st, info, idx) ==
    LET r == ioread_with(st, 4, info.endian) IN
    IF r.st.res # "Ok" THEN r.st ELSE
    LET length == r.val
        s1 == Call(r.st, "circularstring_begin", <<length, idx>>)
    IN
    IF s1.res # "Ok" THEN s1 ELSE
    LET s2 == multi_dim(s1)
        multi == multi_dim_value(s1)
        after_loop(s3) == IF s3.res # "Ok" THEN s3 ELSE Call(s3, "circularstring_end", <<idx>>)
    IN  after_loop(coords_loop(s2, info, multi, 0, length))

\* passes 0, not i, as the ring's index
RECURSIVE rings_loop_bad(_, _, _, _)
rings_loop_bad(st, info, i, ring_count) ==
    IF ~LtCount(i, ring_count) THEN st ELSE
    LET next(s1) == IF s1.res # "Ok" THEN s1 ELSE rings_loop_bad(s1, info, i + 1, ring_count)
    IN  next(process_linestring(st, info, FALSE, 0))

\* for i in 0..ring_count { process_linestring(raw, info, false, i, processor)?; }
RECURSIVE rings_loop(_, _, _, _)
rings_loop(st, info, i, ring_count) ==
    IF ~LtCount(i, ring_count) THEN st ELSE
    LET next(s1) == IF s1.res # "Ok" THEN s1 ELSE rings_loop(s1, info, i + 1, ring_count)
    IN  next(process_linestring(st, info, FALSE, i))

\* decodes one ring before it looks at ring_count
process_polygon_bad(st, info, tagged, idx) ==
    LET r == ioread_with(st, 4, info.endian) IN
    IF r.st.res # "Ok" THEN r.st ELSE
    LET ring_count == r.val
        s1 == Call(r.st, "polygon_begin", <<tagged, ring_count, idx>>)
    IN
    IF s1.res # "Ok" THEN s1 ELSE
    LET after_loop(s2) == IF s2.res # "Ok" THEN s2 ELSE Call(s2, "polygon_end", <<tagged, idx>>)
        first(s2) == IF s2.res # "Ok" THEN s2 ELSE after_loop(rings_loop(s2, info, 1, ring_count))
    IN  first(process_linestring(s1, info, FALSE, 0))

process_polygon(st, info, tagged, idx) ==
    LET r == ioread_with(st, 4, info.endian) IN
    IF r.st.res # "Ok" THEN r.st ELSE
    LET ring_count == r.val
        s1 == Call(r.st, "polygon_begin", <<tagged, ring_count, idx>>)
    IN
    IF s1.res # "Ok" THEN s1 ELSE
    LET after_loop(s2) == IF s2.res # "Ok" THEN s2 ELSE Call(s2, "polygon_end", <<tagged, idx>>)
    IN  after_loop(rings_loop(s1, info, 0, ring_count))

process_triangle(st, info, tagged, idx) ==
    LET r == ioread_with(st, 4, info.endian) IN
    IF r.st.res # "Ok" THEN r.st ELSE
    LET ring_count == r.val
        s1 == Call(r.st, "triangle_begin", <<tagged, ring_count, idx>>)
    IN
    IF s1.res # "Ok" THEN s1 ELSE
    LET after_loop(s2) == IF s2.res # "Ok" THEN s2 ELSE Call(s2, "triangle_end", <<tagged, idx>>)
    IN  after_loop(rings_loop(s1, info, 0, ring_count))

\* the body of process_compoundcurve's loop: one tagged segment
compoundcurve_member(h, read_header, i) ==
    IF h.st.res # "Ok" THEN h.st ELSE
    CASE h.info.base_type = "CircularString" ->
             process_circularstring(h.st, h.info, i)
      [] h.info.base_type = "LineString" ->
             process_linestring(h.st, h.info, FALSE, i)
      [] OTHER -> GeometryFormat(h.st)

RECURSIVE compoundcurve_loop(_, _, _, _)
compoundcurve_loop(st, read_header, i, n_strings) ==
    IF ~LtCount(i, n_strings) THEN st ELSE
    LET next(s1) == IF s1.res # "Ok" THEN s1 ELSE compoundcurve_loop(s1, read_header, i + 1, n_strings)
    IN  next(compoundcurve_member(call_read_header(read_header, st), read_header, i))

process_compoundcurve(st, info, read_header, idx) ==
    LET r == ioread_with(st, 4, info.endian) IN
    IF r.st.res # "Ok" THEN r.st ELSE
    LET n_strings == r.val
        s1 == Call(r.st, "compoundcurve_begin", <<n_strings, idx>>)
    IN
    IF s1.res # "Ok" THEN s1 ELSE
    LET after_loop(s2) == IF s2.res # "Ok" THEN s2 ELSE Call(s2, "compoundcurve_end", <<idx>>)
    IN  after_loop(compoundcurve_loop(s1, read_header, 0, n_strings))

\* reads a member of any other kind as a line string
process_curve_bad(st, read_header, idx) ==
    LET h == call_read_header(read_header, st) IN
    IF h.st.res # "Ok" THEN h.st ELSE
    CASE h.info.base_type = "CircularString" -> process_circularstring(h.st, h.info, idx)
      [] h.info.base_type = "CompoundCurve"  ->
             process_compoundcurve(h.st, h.info, read_header, idx)
      [] OTHER                               -> process_linestring(h.st, h.info, FALSE, idx)

process_curve_match(h, read_header, idx) ==
    IF h.st.res # "Ok" THEN h.st ELSE
    CASE h.info.base_type = "CircularString" ->
             process_circularstring(h.st, h.info, idx)
      [] h.info.base_type = "LineString" ->
             process_linestring(h.st, h.info, FALSE, idx)
      [] h.info.base_type = "CompoundCurve" ->
             process_compoundcurve(h.st, h.info, read_header, idx)
      [] OTHER -> GeometryFormat(h.st)

\* let info = read_header(raw)?; match info.base_type { .. }
process_curve(st, read_header, idx) ==
    process_curve_match(call_read_header(read_header, st), read_header, idx)

\* for i in 0..n { process_curve(raw, read_header, i, processor)?; }
RECURSIVE curves_loop(_, _, _, _)
curves_loop(st, read_header, i, n) ==
    IF ~LtCount(i, n) THEN st ELSE
    LET next(s1) == IF s1.res # "Ok" THEN s1 ELSE curves_loop(s1, read_header, i + 1, n)
    IN  next(process_curve(st, read_header, i))

process_curvepolygon(st, info, read_header, idx) ==
    LET r == ioread_with(st, 4, info.endian) IN
    IF r.st.res # "Ok" THEN r.st ELSE
    LET ring_count == r.val
        s1 == Call(r.st, "curvepolygon_begin", <<ring_count, idx>>)
    IN
    IF s1.res # "Ok" THEN s1 ELSE
    LET after_loop(s2) == IF s2.res # "Ok" THEN s2 ELSE Call(s2, "curvepolygon_end", <<idx>>)
    IN  after_loop(curves_loop(s1, read_header, 0, ring_count))

----------------------------------------------------------------------------
(* The walker *)

RECURSIVE process_wkb_geom_n(_, _, _, _)

\* decodes the member as a point of its own, between point_begin and point_end
multipoint_member_bad(h, read_header, multi, i) ==
    IF h.st.res # "Ok" THEN h.st ELSE
    LET s1 == Call(h.st, "point_begin", <<i>>) IN
    IF s1.res # "Ok" THEN s1 ELSE
    LET after_coord(s2) == IF s2.res # "Ok" THEN s2 ELSE Call(s2, "point_end", <<i>>)
    IN  after_coord(process_coord(s1, h.info, multi, i))

\* MultiPoint: let info = read_header(raw)?; process_coord(raw, &info, multi, i, processor)?;
multipoint_member(h, read_header, multi, i) ==
    IF h.st.res # "Ok" THEN h.st ELSE process_coord(h.st, h.info, multi, i)

RECURSIVE multipoint_loop(_, _, _, _, _)
multipoint_loop(st, read_header, multi, i, n_pts) ==
    IF ~LtCount(i, n_pts) THEN st ELSE
    LET next(s1) == IF s1.res # "Ok" THEN s1 ELSE multipoint_loop(s1, read_header, multi, i + 1, n_pts)
    IN  next(multipoint_member(call_read_header(read_header, st), read_header, multi, i))

\* MultiLineString: let info = read_header(raw)?; process_linestring(raw, &info, false, i, ..)?;
multilinestring_member(h, read_header, i) ==
    IF h.st.res # "Ok" THEN h.st ELSE process_linestring(h.st, h.info, FALSE, i)

RECURSIVE multilinestring_loop(_, _, _, _)
multilinestring_loop(st, read_header, i, n_lines) ==
    IF ~LtCount(i, n_lines) THEN st ELSE
    LET next(s1) == IF s1.res # "Ok" THEN s1 ELSE multilinestring_loop(s1, read_header, i + 1, n_lines)
    IN  next(multilinestring_member(call_read_header(read_header, st), read_header, i))

\* MultiPolygon, PolyhedralSurface: let info = read_header(raw)?; process_polygon(.., false, i, ..)?;
polygon_member(h, read_header, i) ==
    IF h.st.res # "Ok" THEN h.st ELSE process_polygon(h.st, h.info, FALSE, i)

RECURSIVE polygons_loop(_, _, _, _)
polygons_loop(st, read_header, i, n_polys) ==
    IF ~LtCount(i, n_polys) THEN st ELSE
    LET next(s1) == IF s1.res # "Ok" THEN s1 ELSE polygons_loop(s1, read_header, i + 1, n_polys)
    IN  next(polygon_member(call_read_header(read_header, st), read_header, i))

\* Tin: let info = read_header(raw)?; process_triangle(raw, &info, false, i, processor)?;
triangle_member(h, read_header, i) ==
    IF h.st.res # "Ok" THEN h.st ELSE process_triangle(h.st, h.info, FALSE, i)

RECURSIVE triangles_loop(_, _, _, _)
triangles_loop(st, read_header, i, n_triangles) ==
    IF ~LtCount(i, n_triangles) THEN st ELSE
    LET next(s1) == IF s1.res # "Ok" THEN s1 ELSE triangles_loop(s1, read_header, i + 1, n_triangles)
    IN  next(triangle_member(call_read_header(read_header, st), read_header, i))

\* MultiSurface: the member's header, then CurvePolygon | Polygon | Err
multisurface_member(h, read_header, i) ==
    IF h.st.res # "Ok" THEN h.st ELSE
    CASE h.info.base_type = "CurvePolygon" ->
             process_curvepolygon(h.st, h.info, read_header, i)
      [] h.info.base_type = "Polygon" ->
             process_polygon(h.st, h.info, FALSE, i)
      [] OTHER -> GeometryFormat(h.st)

RECURSIVE multisurface_loop(_, _, _, _)
multisurface_loop(st, read_header, i, n_polys) ==
    IF ~LtCount(i, n_polys) THEN st ELSE
    LET next(s1) == IF s1.res # "Ok" THEN s1 ELSE multisurface_loop(s1, read_header, i + 1, n_polys)
    IN  next(multisurface_member(call_read_header(read_header, st), read_header, i))

\* GeometryCollection: let info = read_header(raw)?; process_wkb_geom_n(.., &info, .., i, ..)?;
geometrycollection_member(h, read_header, i) ==
    IF h.st.res # "Ok" THEN h.st ELSE process_wkb_geom_n(h.st, h.info, read_header, i)

RECURSIVE geometrycollection_loop(_, _, _, _)
geometrycollection_loop(st, read_header, i, n_geoms) ==
    IF ~LtCount(i, n_geoms) THEN st ELSE
    LET next(s1) == IF s1.res # "Ok" THEN s1 ELSE geometrycollection_loop(s1, read_header, i + 1, n_geoms)
    IN  next(geometrycollection_member(call_read_header(read_header, st), read_header, i))

\* the arms of process_wkb_geom_n
\* leaves the point open
process_point_bad(st, info, idx) ==
    LET s1 == Call(st, "point_begin", <<idx>>) IN
    IF s1.res # "Ok" THEN s1 ELSE
    process_coord(multi_dim(s1), info, multi_dim_value(s1), 0)

process_point(st, info, idx) ==
    LET s1 == Call(st, "point_begin", <<idx>>) IN
    IF s1.res # "Ok" THEN s1 ELSE
    LET s2 == multi_dim(s1)
        multi == multi_dim_value(s1)
        after_coord(s3) == IF s3.res # "Ok" THEN s3 ELSE Call(s3, "point_end", <<idx>>)
    IN  after_coord(process_coord(s2, info, multi, 0))

process_multipoint(st, info, read_header, idx) ==
    LET r == ioread_with(st, 4, info.endian) IN
    IF r.st.res # "Ok" THEN r.st ELSE
    LET n_pts == r.val
        s1 == Call(r.st, "multipoint_begin", <<n_pts, idx>>)
    IN
    IF s1.res # "Ok" THEN s1 ELSE
    LET s2 == multi_dim(s1)
        multi == multi_dim_value(s1)
        after_loop(s3) == IF s3.res # "Ok" THEN s3 ELSE Call(s3, "multipoint_end", <<idx>>)
    IN  after_loop(multipoint_loop(s2, read_header, multi, 0, n_pts))

process_multilinestring(st, info, read_header, idx) ==
    LET r == ioread_with(st, 4, info.endian) IN
    IF r.st.res # "Ok" THEN r.st ELSE
    LET n_lines == r.val
        s1 == Call(r.st, "multilinestring_begin", <<n_lines, idx>>)
    IN
    IF s1.res # "Ok" THEN s1 ELSE
    LET after_loop(s2) == IF s2.res # "Ok" THEN s2 ELSE Call(s2, "multilinestring_end", <<idx>>)
    IN  after_loop(multilinestring_loop(s1, read_header, 0, n_lines))

process_multicurve(st, info, read_header, idx) ==
    LET r == ioread_with(st, 4, info.endian) IN
    IF r.st.res # "Ok" THEN r.st ELSE
    LET n_curves == r.val
        s1 == Call(r.st, "multicurve_begin", <<n_curves, idx>>)
    IN
    IF s1.res # "Ok" THEN s1 ELSE
    LET after_loop(s2) == IF s2.res # "Ok" THEN s2 ELSE Call(s2, "multicurve_end", <<idx>>)
    IN  after_loop(curves_loop(s1, read_header, 0, n_curves))

process_multipolygon(st, info, read_header, idx) ==
    LET r == ioread_with(st, 4, info.endian) IN
    IF r.st.res # "Ok" THEN r.st ELSE
    LET n_polys == r.val
        s1 == Call(r.st, "multipolygon_begin", <<n_polys, idx>>)
    IN
    IF s1.res # "Ok" THEN s1 ELSE
    LET after_loop(s2) == IF s2.res # "Ok" THEN s2 ELSE Call(s2, "multipolygon_end", <<idx>>)
    IN  after_loop(polygons_loop(s1, read_header, 0, n_polys))

process_polyhedralsurface(st, info, read_header, idx) ==
    LET r == ioread_with(st, 4, info.endian) IN
    IF r.st.res # "Ok" THEN r.st ELSE
    LET n_polys == r.val
        s1 == Call(r.st, "polyhedralsurface_begin", <<n_polys, idx>>)
    IN
    IF s1.res # "Ok" THEN s1 ELSE
    LET after_loop(s2) == IF s2.res # "Ok" THEN s2 ELSE Call(s2, "polyhedralsurface_end", <<idx>>)
    IN  after_loop(polygons_loop(s1, read_header, 0, n_polys))

process_tin(st, info, read_header, idx) ==
    LET r == ioread_with(st, 4, info.endian) IN
    IF r.st.res # "Ok" THEN r.st ELSE
    LET n_triangles == r.val
        s1 == Call(r.st, "tin_begin", <<n_triangles, idx>>)
    IN
    IF s1.res # "Ok" THEN s1 ELSE
    LET after_loop(s2) == IF s2.res # "Ok" THEN s2 ELSE Call(s2, "tin_end", <<idx>>)
    IN  after_loop(triangles_loop(s1, read_header, 0, n_triangles))

process_multisurface(st, info, read_header, idx) ==
    LET r == ioread_with(st, 4, info.endian) IN
    IF r.st.res # "Ok" THEN r.st ELSE
    LET n_polys == r.val
        s1 == Call(r.st, "multisurface_begin", <<n_polys, idx>>)
    IN
    IF s1.res # "Ok" THEN s1 ELSE
    LET after_loop(s2) == IF s2.res # "Ok" THEN s2 ELSE Call(s2, "multisurface_end", <<idx>>)
    IN  after_loop(multisurface_loop(s1, read_header, 0, n_polys))

process_geometrycollection(st, info, read_header, idx) ==
    LET r == ioread_with(st, 4, info.endian) IN
    IF r.st.res # "Ok" THEN r.st ELSE
    LET n_geoms == r.val
        s1 == Call(r.st, "geometrycollection_begin", <<n_geoms, idx>>)
    IN
    IF s1.res # "Ok" THEN s1 ELSE
    LET after_loop(s2) == IF s2.res # "Ok" THEN s2 ELSE Call(s2, "geometrycollection_end", <<idx>>)
    IN  after_loop(geometrycollection_loop(s1, read_header, 0, n_geoms))

process_wkb_geom_n(st, info, read_header, idx) ==
    CASE info.base_type = "Point"              -> process_point(st, info, idx)
      [] info.base_type = "MultiPoint"         -> process_multipoint(st, info, read_header, idx)
      [] info.base_type = "LineString"         -> process_linestring(st, info, TRUE, idx)
      [] info.base_type = "CircularString"     -> process_circularstring(st, info, idx)
      [] info.base_type = "CompoundCurve"      -> process_compoundcurve(st, info, read_header, idx)
      [] info.base_type = "MultiLineString"    -> process_multilinestring(st, info, read_header, idx)
      [] info.base_type = "MultiCurve"         -> process_multicurve(st, info, read_header, idx)
      [] info.base_type = "Polygon"            -> process_polygon(st, info, TRUE, idx)
      [] info.base_type = "Triangle"           -> process_triangle(st, info, TRUE, idx)
      [] info.base_type = "CurvePolygon"       -> process_curvepolygon(st, info, read_header, idx)
      [] info.base_type = "MultiPolygon"       -> process_multipolygon(st, info, read_header, idx)
      [] info.base_type = "PolyhedralSurface"  -> process_polyhedralsurface(st, info, read_header, idx)
      [] info.base_type = "Tin"                -> process_tin(st, info, read_header, idx)
      [] info.base_type = "MultiSurface"       -> process_multisurface(st, info, read_header, idx)
      [] info.base_type = "GeometryCollection" -> process_geometrycollection(st, info, read_header, idx)
      [] OTHER                                 -> GeometryFormat(st)

----------------------------------------------------------------------------
(* Entry points *)

\* let info = <the dialect's header decoder>(raw)?;
\* process_wkb_geom_n(raw, &info, <the decoder for nested headers>, 0, processor)
process_geom(h, read_header) ==
    IF h.st.res # "Ok" THEN h.st ELSE process_wkb_geom_n(h.st, h.info, read_header, 0)

process_wkb_geom(st) == process_geom(read_wkb_header(st), "read_wkb_header")

\* hands the plain decoder down for the nested headers
process_ewkb_geom_bad(st) == process_geom(read_ewkb_header(st), "read_wkb_header")

process_ewkb_geom(st) == process_geom(read_ewkb_header(st), "read_ewkb_header")

process_gpkg_geom(st) == process_geom(read_gpkg_header(st), "read_wkb_header")

----------------------------------------------------------------------------
(* The inputs: byte strings written from small geometry trees, well-formed *)
(* and malformed.  A tree t is one tagged geometry: its byte-order marker  *)
(* (e), the byte order its body is written in (be), its type code and      *)
(* dimension tier, and its body by layout: one coordinate ("point"), a     *)
(* counted coordinate list ("coords"), counted untagged rings ("rings") or *)
(* counted tagged members ("members").                                     *)

MaxCount == 2      \* members, rings and coordinates per sequence
MaxFailAt == 3     \* the Processor call that fails, at most
MaxFlipAt == 1     \* the multi_dim() query after which the preference flips, at most
MaxNest == 3       \* GeometryCollection-in-GeometryCollection chain depth

ToStream(d, e) == IF e = "BE" THEN d ELSE Reverse(d)
Marker(e) == IF e = "BE" THEN 0 ELSE 1
HasZ(dim) == dim \in {1, 3}
HasM(dim) == dim \in {2, 3}

RECURSIVE Concat(_)
Concat(ss) == IF ss = <<>> THEN <<>> ELSE Head(ss) \o Concat(Tail(ss))

TypeId(enc, code, dim, srid) ==
    IF enc = "wkb" THEN U32(dim * 1000 + code)
    ELSE <<(IF HasZ(dim) THEN 128 ELSE 0) + (IF HasM(dim) THEN 64 ELSE 0)
             + (IF srid THEN 32 ELSE 0), 0, 0, code>>

Srid4326 == <<0, 0, 16, 230>>

HeaderBytes(enc, t) ==
    <<Marker(t.e)>> \o ToStream(TypeId(enc, t.code, t.dim, t.srid), t.e)
        \o (IF enc = "ewkb" /\ t.srid THEN ToStream(Srid4326, t.e) ELSE <<>>)

\* the k-th coordinate's ordinate: an f64 bit pattern that differs from its reverse
F64(axis, k) == <<64, 36 + axis, 0, 0, 0, 0, 0, k + 1>>

CoordBytes(e, dim, k) ==
    ToStream(F64(0, k), e) \o ToStream(F64(1, k), e)
        \o (IF HasZ(dim) THEN ToStream(F64(2, k), e) ELSE <<>>)
        \o (IF HasM(dim) THEN ToStream(F64(3, k), e) ELSE <<>>)

CoordsBytes(e, dim, n) ==
    ToStream(U32(n), e) \o Concat([k \in 1..n |-> CoordBytes(e, dim, k - 1)])

RECURSIVE TreeBytes(_, _)
BodyBytes(enc, t) ==
    CASE t.layout = "point"   -> CoordBytes(t.be, t.dim, 0)
      [] t.layout = "coords"  -> CoordsBytes(t.be, t.dim, t.n)
      [] t.layout = "rings"   ->
             ToStream(U32(Len(t.rings)), t.be)
                 \o Concat([j \in 1..Len(t.rings) |-> CoordsBytes(t.be, t.dim, t.rings[j])])
      [] t.layout = "members" ->
             ToStream(t.cnt, t.be)
                 \o Concat([j \in 1..Len(t.kids) |-> TreeBytes(enc, t.kids[j])])
      [] OTHER                -> <<>>
TreeBytes(enc, t) == HeaderBytes(enc, t) \o BodyBytes(enc, t)

Tree(code, e, dim, layout, n, rings, kids) ==
    [code |-> code, e |-> e, be |-> e, dim |-> dim, srid |-> FALSE, layout |-> layout,
     n |-> n, rings |-> rings, kids |-> kids, cnt |-> U32(Len(kids))]

\* type codes: the fifteen kinds, and two codes of no kind (0 and 13)
PointCodes == {1}
CoordsCodes == {2, 8}
RingsCodes == {3, 17}
CollectionCodes == {4, 5, 6, 7, 9, 10, 11, 12, 15, 16}
UnknownCodes == {0, 13}
AllCodes == PointCodes \cup CoordsCodes \cup RingsCodes \cup CollectionCodes \cup UnknownCodes

\* the kinds the walker accepts as members of a collection code
Permitted(code) ==
    CASE code = 4           -> {1}
      [] code = 5           -> {2}
      [] code \in {6, 15}   -> {3}
      [] code = 16          -> {17}
      [] code = 9           -> {2, 8}
      [] code \in {10, 11}  -> {2, 8, 9}
      [] code = 12          -> {3, 10}
      [] code = 7           -> {1, 7}
      [] OTHER              -> {}

\* a smallest tree of a code; a code of no kind is written like a point
Leaf(code, e, dim) ==
    CASE code \in CoordsCodes     -> Tree(code, e, dim, "coords", 1, <<>>, <<>>)
      [] code \in RingsCodes      -> Tree(code, e, dim, "rings", 0, <<1>>, <<>>)
      [] code \in CollectionCodes -> Tree(code, e, dim, "members", 0, <<>>, <<>>)
      [] OTHER                    -> Tree(code, e, dim, "point", 0, <<>>, <<>>)

\* a small tree of a code: a collection holds one smallest permitted member
Small(code, e, dim) ==
    IF code \in CollectionCodes
    THEN Tree(code, e, dim, "members", 0, <<>>,
              <<Leaf(CHOOSE c \in Permitted(code) : \A d \in Permitted(code) : c <= d, e, dim)>>)
    ELSE Leaf(code, e, dim)

\* member lists of a collection: all but the last member permitted, the last of any code
RECURSIVE PermittedLists(_, _, _, _)
PermittedLists(code, e, dim, n) ==
    IF n = 0 THEN {<<>>}
    ELSE {Append(l, Small(c, e, dim)) : l \in PermittedLists(code, e, dim, n - 1),
                                        c \in Permitted(code)}

MemberLists(code, e, dim) ==
    {<<>>} \cup
    UNION {{Append(l, Small(c, e, dim)) : l \in PermittedLists(code, e, dim, n - 1), c \in AllCodes}
           : n \in 1..MaxCount}

RingLists == UNION {[1..r -> 0..MaxCount] : r \in 0..MaxCount}

\* every shape, in one byte order and dimension tier
Shapes(e, dim) ==
    {Leaf(c, e, dim) : c \in PointCodes \cup UnknownCodes}
    \cup {Tree(c, e, dim, "coords", n, <<>>, <<>>) : c \in CoordsCodes, n \in 0..MaxCount}
    \cup {Tree(c, e, dim, "rings", 0, rs, <<>>) : c \in RingsCodes, rs \in RingLists}
    \cup UNION {{Tree(c, e, dim, "members", 0, <<>>, ks) : ks \in MemberLists(c, e, dim)}
                : c \in CollectionCodes}

\* shapes whose members carry their own byte order and dimension tier
Mixed(e, dim, e2, dim2) ==
    {Leaf(1, e, dim),
     Tree(2, e, dim, "coords", 2, <<>>, <<>>),
     Tree(3, e, dim, "rings", 0, <<2>>, <<>>),
     Tree(4, e, dim, "members", 0, <<>>, <<Leaf(1, e2, dim2), Leaf(1, e, dim)>>),
     Tree(5, e, dim, "members", 0, <<>>, <<Leaf(2, e2, dim2)>>),
     Tree(6, e, dim, "members", 0, <<>>, <<Leaf(3, e2, dim2)>>),
     Tree(7, e, dim, "members", 0, <<>>, <<Leaf(1, e2, dim2), Leaf(2, e, dim)>>),
     Tree(10, e, dim, "members", 0, <<>>,
          <<Tree(9, e2, dim2, "members", 0, <<>>, <<Leaf(8, e, dim)>>)>>)}

Other(e) == IF e = "BE" THEN "LE" ELSE "BE"

MixedShapes ==
    UNION {Mixed(e, dim, e, dim) \cup Mixed(e, dim, Other(e), (dim + 1) % 4)
           : e \in {"BE", "LE"}, dim \in 0..3}

\* a chain of GeometryCollections, depth deep, around a point
RECURSIVE Nest(_)
Nest(depth) ==
    IF depth = 0 THEN Leaf(1, "LE", 0)
    ELSE Tree(7, "LE", 0, "members", 0, <<>>, <<Nest(depth - 1)>>)

NestShapes == {Nest(d) : d \in 1..MaxNest}

\* a count far above what the bytes hold
HugeShapes ==
    {[Tree(c, "LE", 0, "members", 0, <<>>, <<Small(CHOOSE k \in Permitted(c) : TRUE, "LE", 0)>>)
        EXCEPT !.cnt = <<255, 255, 255, 255>>] : c \in {4, 7}}

WithSrid(t) == [t EXCEPT !.srid = TRUE]
WithMemberSrid(t) ==
    [t EXCEPT !.kids = [j \in 1..Len(t.kids) |-> [t.kids[j] EXCEPT !.srid = TRUE]]]

\* GeoPackage prefix: magic, version, flags, SRID and envelope in the flags' byte order
GpkgPrefix(magic, flags) ==
    LET e == IF flags % 2 = 0 THEN "BE" ELSE "LE"
        code == (flags \div 2) % 8
        len == IF code = 0 THEN 0 ELSE IF code = 1 THEN 4 ELSE IF code \in {2, 3} THEN 6 ELSE 8
    IN  magic \o <<0, flags>> \o ToStream(Srid4326, e)
            \o Concat([k \in 1..len |-> ToStream(F64(4, k), e)])

GP == <<71, 80>>

\* the embedded geometry's marker names one order, the flags another
GpkgTrees ==
    UNION {{[t EXCEPT !.be = be] : t \in {Leaf(1, e, 1),
                                           Tree(2, e, 0, "coords", 2, <<>>, <<>>),
                                           Tree(3, e, 0, "rings", 0, <<1>>, <<>>),
                                           Tree(4, e, 0, "members", 0, <<>>, <<Leaf(1, e, 0)>>)}}
           : e \in {"BE", "LE"}, be \in {"BE", "LE"}}

GpkgFlags == 0..15 \cup {17, 33}

GpkgInputs ==
    {GpkgPrefix(GP, 1) \o TreeBytes("wkb", t)
        : t \in Shapes("LE", 0) \cup MixedShapes \cup NestShapes \cup HugeShapes}
    \cup {GpkgPrefix(GP, f) \o TreeBytes("wkb", t) : f \in GpkgFlags, t \in GpkgTrees}
    \cup {GpkgPrefix(m, f) \o TreeBytes("wkb", Leaf(1, "LE", 0))
            : m \in {<<71, 81>>, <<72, 80>>, <<80, 71>>, <<1, 1>>}, f \in {1, 10}}
    \cup {<<71, 79>>, <<0, 80>>}

WkbInputs ==
    {TreeBytes("wkb", t) : t \in Shapes("LE", 0) \cup MixedShapes \cup NestShapes \cup HugeShapes}

EwkbInputs ==
    {TreeBytes("ewkb", t) : t \in Shapes("LE", 0) \cup MixedShapes \cup NestShapes \cup HugeShapes}
    \cup {TreeBytes("ewkb", WithSrid(t)) : t \in MixedShapes}
    \cup {TreeBytes("ewkb", WithMemberSrid(t)) : t \in MixedShapes}

Prefixes(bytes) == {SubSeq(bytes, 1, n) : n \in 0..(Len(bytes) - 1)}

\* inputs cut short
CutWkb == Prefixes(TreeBytes("wkb", Tree(3, "LE", 1, "rings", 0, <<1>>, <<>>)))
CutEwkb ==
    Prefixes(TreeBytes("ewkb",
        WithSrid(Tree(7, "BE", 0, "members", 0, <<>>, <<Leaf(1, "LE", 3)>>))))
CutGpkg == Prefixes(GpkgPrefix(GP, 3) \o TreeBytes("wkb", Leaf(1, "LE", 0)))

Corpus ==
    {[dialect |-> "Wkb", bytes |-> b] : b \in WkbInputs \cup CutWkb}
    \cup {[dialect |-> "Ewkb", bytes |-> b] : b \in EwkbInputs \cup CutEwkb}
    \cup {[dialect |-> "Geopackage", bytes |-> b] : b \in GpkgInputs \cup CutGpkg}

Processors ==
    {p \in [multi : {FALSE}, failAt : 0..MaxFailAt, flipAt : 0..MaxFlipAt]
        : p.failAt = 0 \/ p.flipAt = 0}

----------------------------------------------------------------------------
(* The state machine: a caller holds a geometry value and a Processor and  *)
(* calls process_geom on it, any number of times, each on a fresh byte     *)
(* source; a Processor starts out wanting (x,y) only, and between calls    *)
(* the caller may ask for all dimensions.                                  *)

NoRun == [res |-> "NoRun", log |-> <<>>, pos |-> 0]

Init ==
    /\ geom \in Corpus
    /\ proc \in Processors
    /\ out = NoRun

\* impl GeozeroGeometry for Wkb
WkbProcessGeom ==
    /\ geom.dialect = "Wkb"
    /\ out' = process_wkb_geom(Start(geom.bytes, proc))
    /\ UNCHANGED <<geom, proc>>

\* impl GeozeroGeometry for Ewkb
EwkbProcessGeom ==
    /\ geom.dialect = "Ewkb"
    /\ out' = process_ewkb_geom(Start(geom.bytes, proc))
    /\ UNCHANGED <<geom, proc>>

\* impl GeozeroGeometry for GpkgWkb
GpkgProcessGeom ==
    /\ geom.dialect = "Geopackage"
    /\ out' = process_gpkg_geom(Start(geom.bytes, proc))
    /\ UNCHANGED <<geom, proc>>

\* writer.dims.z = true; writer.dims.m = true: the caller asks for all dimensions
SetDims ==
    /\ out.res # "NoRun"
    /\ ~proc.multi
    /\ proc' = [proc EXCEPT !.multi = TRUE]
    /\ UNCHANGED <<geom, out>>

Next == WkbProcessGeom \/ EwkbProcessGeom \/ GpkgProcessGeom \/ SetDims

Spec == Init /\ [][Next]_vars

----------------------------------------------------------------------------
(* Reading the log *)

HeaderFns == {"read_wkb_header", "read_ewkb_header", "read_gpkg_header"}
CoordFns == {"xy", "coordinate"}
BeginFns ==
    {"point_begin", "multipoint_begin", "linestring_begin", "circularstring_begin",
     "compoundcurve_begin", "multilinestring_begin", "multicurve_begin", "polygon_begin",
     "triangle_begin", "curvepolygon_begin", "multipolygon_begin",
     "polyhedralsurface_begin", "tin_begin", "multisurface_begin",
     "geometrycollection_begin"}
EndFns ==
    {"point_end", "multipoint_end", "linestring_end", "circularstring_end",
     "compoundcurve_end", "multilinestring_end", "multicurve_end", "polygon_end",
     "triangle_end", "curvepolygon_end", "multipolygon_end",
     "polyhedralsurface_end", "tin_end", "multisurface_end", "geometrycollection_end"}

EndOf(fn) ==
    CASE fn = "point_begin"              -> "point_end"
      [] fn = "multipoint_begin"         -> "multipoint_end"
      [] fn = "linestring_begin"         -> "linestring_end"
      [] fn = "circularstring_begin"     -> "circularstring_end"
      [] fn = "compoundcurve_begin"      -> "compoundcurve_end"
      [] fn = "multilinestring_begin"    -> "multilinestring_end"
      [] fn = "multicurve_begin"         -> "multicurve_end"
      [] fn = "polygon_begin"            -> "polygon_end"
      [] fn = "triangle_begin"           -> "triangle_end"
      [] fn = "curvepolygon_begin"       -> "curvepolygon_end"
      [] fn = "multipolygon_begin"       -> "multipolygon_end"
      [] fn = "polyhedralsurface_begin"  -> "polyhedralsurface_end"
      [] fn = "tin_begin"                -> "tin_end"
      [] fn = "multisurface_begin"       -> "multisurface_end"
      [] fn = "geometrycollection_begin" -> "geometrycollection_end"
      [] OTHER                           -> "none"

IsCall(e) == e.fn \in BeginFns \cup EndFns \cup CoordFns \cup {"multi_dim"}
Calls(log) == SelectSeq(log, IsCall)
Idx(e) == e.params[Len(e.params)]
Ran == out.res # "NoRun"

\* The begin calls still open after each prefix of the log, innermost last, each with
\* the number of begin/end pairs closed directly inside it (kids) and of member
\* headers decoded directly inside it (hdrs); ok turns FALSE at
\* a begin whose index is not its position among its siblings, and at an end that
\* does not close the innermost open begin with the same kind and index.
RECURSIVE Nesting(_, _, _)
Nesting(log, i, acc) ==
    IF i > Len(log) THEN acc ELSE
    LET e == log[i] IN
    IF e.fn \in BeginFns THEN
        LET want == IF acc.stack = <<>> THEN acc.tops ELSE acc.stack[Len(acc.stack)].kids IN
        Nesting(log, i + 1,
            [acc EXCEPT !.ok = @ /\ Idx(e) = want,
                        !.depth = IF Len(acc.stack) + 1 > @ THEN Len(acc.stack) + 1 ELSE @,
                        !.stack = Append(@, [fn |-> e.fn, idx |-> Idx(e), kids |-> 0, hdrs |-> 0])])
    ELSE IF e.fn \in EndFns THEN
        IF acc.stack = <<>> THEN [acc EXCEPT !.ok = FALSE] ELSE
        LET top == acc.stack[Len(acc.stack)]
            rest == SubSeq(acc.stack, 1, Len(acc.stack) - 1)
        IN  Nesting(log, i + 1,
                [acc EXCEPT !.ok = @ /\ EndOf(top.fn) = e.fn /\ top.idx = Idx(e),
                            !.tops = IF rest = <<>> THEN @ + 1 ELSE @,
                            !.stack = IF rest = <<>> THEN rest
                                      ELSE [rest EXCEPT ![Len(rest)].kids = @ + 1]])
    ELSE IF e.fn \in HeaderFns /\ acc.stack # <<>> THEN
        Nesting(log, i + 1, [acc EXCEPT !.stack[Len(acc.stack)].hdrs = @ + 1])
    ELSE Nesting(log, i + 1, acc)

Nested(log) == Nesting(log, 1, [ok |-> TRUE, stack |-> <<>>, tops |-> 0, depth |-> 0])

----------------------------------------------------------------------------
(* C1: on every input that decodes to Ok, in every dialect, the Processor  *)
(* calls are well nested: each <kind>_begin is closed by the <kind>_end of *)
(* the same kind and element index, last opened first closed; there is one *)
(* outermost pair, with index 0, and each nested pair carries its 0-based  *)
(* position among the pairs of its immediate parent.                       *)
C1_WellNested ==
    out.res = "Ok" =>
        LET n == Nested(out.log) IN n.ok /\ n.stack = <<>> /\ n.tops = 1

\* a decode that returned Ok after nesting three deep and closing a second sibling
C1_Witness ==
    /\ out.res = "Ok"
    /\ Nested(out.log).depth >= 3
    /\ \E i \in 1..Len(out.log) : out.log[i].fn \in EndFns /\ Idx(out.log[i]) = 1

----------------------------------------------------------------------------
(* C2: once a read, a header decode, a kind check or a Processor call has  *)
(* failed, nothing more is done: the failure is the last entry of the log  *)
(* (no later Processor call, no *_end of an open geometry) and it is what  *)
(* the decode call returns; a call that returns Ok has met no failure.     *)
C2_FailureAborts ==
    Ran =>
        /\ \A i \in 1..Len(out.log) :
               out.log[i].fn = "Err" => i = Len(out.log) /\ out.res = out.log[i].params[1]
        /\ out.res # "Ok" => Len(out.log) > 0 /\ out.log[Len(out.log)].fn = "Err"

\* a Processor call failed while two geometries were open
C2_Witness ==
    /\ out.res = "Processor"
    /\ Len(Nested(out.log).stack) >= 2

----------------------------------------------------------------------------
(* C3: a tagged member of a CompoundCurve, CurvePolygon, MultiCurve or     *)
(* MultiSurface whose decoded kind is outside the parent's permitted set   *)
(* makes the decode fail with the geometry-format error right at that      *)
(* member's header: the parent's begin call and the calls of the preceding *)
(* members (all closed) are in the log, and nothing follows the header but *)
(* the failure.                                                            *)

PermittedIn(fn) ==
    CASE fn = "compoundcurve_begin" -> {"CircularString", "LineString"}
      [] fn \in {"curvepolygon_begin", "multicurve_begin"} ->
             {"CircularString", "LineString", "CompoundCurve"}
      [] fn = "multisurface_begin"  -> {"Polygon", "CurvePolygon"}
      [] OTHER                      -> {}

ConstrainedParents ==
    {"compoundcurve_begin", "curvepolygon_begin", "multicurve_begin", "multisurface_begin"}

\* the innermost begin call open just before log entry i (an empty tuple when none is)
ParentAt(log, i) ==
    LET st == Nested(SubSeq(log, 1, i - 1)).stack IN
    IF st = <<>> THEN <<>> ELSE <<st[Len(st)]>>

\* log entry i is the decoded header of a member not permitted in its parent
Offending(log, i) ==
    /\ log[i].fn \in HeaderFns
    /\ LET p == ParentAt(log, i) IN
         /\ p # <<>>
         /\ p[1].fn \in ConstrainedParents
         /\ log[i].params[2].base_type \notin PermittedIn(p[1].fn)

C3_MemberKindChecked ==
    \A i \in 1..Len(out.log) :
        Offending(out.log, i) =>
            /\ out.res = "GeometryFormat"
            /\ Len(out.log) = i + 1
            /\ out.log[i + 1] = Ev("Err", <<"GeometryFormat">>)
            /\ LET p == ParentAt(out.log, i)[1] IN p.kids = p.hdrs

\* the second member of a constrained parent is not permitted; the first was walked
C3_Witness ==
    \E i \in 1..Len(out.log) :
        /\ Offending(out.log, i)
        /\ ParentAt(out.log, i)[1].kids = 1
        /\ out.res = "GeometryFormat"

----------------------------------------------------------------------------
(* C4: every decoded header, the outermost and every tagged member's, of   *)
(* every collection kind, that has an Unknown or unsupported base kind     *)
(* makes the decode fail at once with the geometry-format error; no such   *)
(* member is decoded as if it had another kind.                            *)

\* log entry i is a decoded header that governs a geometry (not the plain header
\* embedded in a GeoPackage header, which the GeoPackage header's entry follows)
GoverningHeader(log, i) ==
    /\ log[i].fn \in HeaderFns
    /\ ~(i < Len(log) /\ log[i + 1].fn = "read_gpkg_header")

C4_UnknownKindFails ==
    \A i \in 1..Len(out.log) :
        (GoverningHeader(out.log, i) /\ out.log[i].params[2].base_type = "Unknown") =>
            /\ out.res = "GeometryFormat"
            /\ Len(out.log) = i + 1
            /\ out.log[i + 1] = Ev("Err", <<"GeometryFormat">>)

----------------------------------------------------------------------------
(* C5: process_gpkg_geom on an input whose first two bytes are not 'G','P' *)
(* fails with the geometry-format error without any Processor call,        *)
(* whatever bytes follow.                                                  *)
C5_BadMagic ==
    (/\ Ran
     /\ geom.dialect = "Geopackage"
     /\ Len(geom.bytes) >= 2
     /\ SubSeq(geom.bytes, 1, 2) # <<71, 80>>) =>
        /\ out.res = "GeometryFormat"
        /\ Calls(out.log) = <<>>
        /\ out.pos = 2

\* a wrong magic in front of an otherwise well-formed GeoPackage point
C5_Witness ==
    /\ geom.dialect = "Geopackage"
    /\ Len(geom.bytes) > 20
    /\ geom.bytes[1] = 71
    /\ geom.bytes[2] # 80
    /\ out.res = "GeometryFormat"

----------------------------------------------------------------------------
(* C6 as stated: in an EWKB stream and in a GeoPackage stream the header   *)
(* of every nested tagged member is decoded with the plain decoder: base   *)
(* kind = type code mod 1000, dimensions = type code div 1000, and no SRID *)
(* is read (the type code is the last thing read for the header).          *)

\* the byte order the marker at offset at names, and the type code behind it
MarkerOrder(buf, at) == IF buf[at + 1] = 0 THEN "BE" ELSE "LE"
TypeCode(buf, at) == FromStream(SubSeq(buf, at + 2, at + 5), MarkerOrder(buf, at))

\* log entry i is the decoded header of a tagged member: a begin call is open
MemberHeader(log, i) == log[i].fn \in HeaderFns /\ ParentAt(log, i) # <<>>

DecodedAsPlain(buf, log, i) ==
    LET at == log[i].params[1]
        info == log[i].params[2]
        d == TypeCode(buf, at)
        code == (d[1] * 216 + d[2] * 536 + d[3] * 256 + d[4]) % 1000
        tier == ((d[1] * 256 + d[2]) \div 1000) * 65536
                  + ((((d[1] * 256 + d[2]) % 1000) * 65536 + d[3] * 256 + d[4]) \div 1000)
    IN  /\ info.endian = MarkerOrder(buf, at)
        /\ info.base_type = from_u32(code)
        /\ info.has_z = (tier \in {1, 3})
        /\ info.has_m = (tier \in {2, 3})
        /\ info.srid = <<>>
        /\ log[i - 1] = Ev("ioread", <<at + 1, 4, MarkerOrder(buf, at)>>)

DecodedAsExtended(buf, log, i) ==
    LET at == log[i].params[1]
        info == log[i].params[2]
        d == TypeCode(buf, at)
        order == MarkerOrder(buf, at)
        withSrid == (d[1] \div 32) % 2 = 1
    IN  /\ info.endian = order
        /\ info.base_type = from_u32(d[4])
        /\ info.has_z = (d[1] >= 128)
        /\ info.has_m = ((d[1] \div 64) % 2 = 1)
        /\ info.srid = IF withSrid THEN <<FromStream(SubSeq(buf, at + 6, at + 9), order)>>
                       ELSE <<>>
        /\ log[i - 1] = IF withSrid THEN Ev("ioread", <<at + 5, 4, order>>)
                        ELSE Ev("ioread", <<at + 1, 4, order>>)

C6_NestedPlain ==
    (Ran /\ geom.dialect \in {"Ewkb", "Geopackage"}) =>
        \A i \in 1..Len(out.log) :
            MemberHeader(out.log, i) => DecodedAsPlain(out.buf, out.log, i)

(* C6 as amended: in an EWKB stream every header, the outermost and every  *)
(* nested member's at every depth, is decoded with the extended decoder    *)
(* (base kind = type code & 0xFF, Z and M from bits 31 and 30, an SRID     *)
(* read when bit 29 is set); in a GeoPackage stream the outermost header   *)
(* is decoded with the GeoPackage decoder and every nested member's with   *)
(* the plain decoder (type code mod 1000 and div 1000, no SRID read).      *)
C6_NestedDecoder ==
    Ran =>
        \A i \in 1..Len(out.log) :
            /\ (geom.dialect = "Ewkb" /\ out.log[i].fn \in HeaderFns) =>
                   out.log[i].fn = "read_ewkb_header" /\ DecodedAsExtended(out.buf, out.log, i)
            /\ (geom.dialect = "Geopackage" /\ MemberHeader(out.log, i)) =>
                   out.log[i].fn = "read_wkb_header" /\ DecodedAsPlain(out.buf, out.log, i)
            /\ (geom.dialect = "Geopackage" /\ GoverningHeader(out.log, i)
                    /\ ~MemberHeader(out.log, i)) =>
                   out.log[i].fn = "read_gpkg_header"

\* an EWKB member header with the Z flag and an SRID, decoded and walked to the end
C6_Witness ==
    /\ geom.dialect = "Ewkb"
    /\ out.res = "Ok"
    /\ \E i \in 1..Len(out.log) :
           /\ MemberHeader(out.log, i)
           /\ out.log[i].params[2].has_z
           /\ out.log[i].params[2].srid # <<>>

----------------------------------------------------------------------------
(* C7 as stated: every coordinate emission (xy or coordinate) is directly  *)
(* preceded, among the Processor calls, by its own multi_dim() query.      *)
C7_QueryPerCoordinate ==
    LET c == Calls(out.log) IN
    \A i \in 1..Len(c) : c[i].fn \in CoordFns => i > 1 /\ c[i - 1].fn = "multi_dim"

(* C7 as amended: the walker queries the preference once per coordinate    *)
(* sequence, not per coordinate: directly after the begin call of each     *)
(* Point, LineString, CircularString, ring and MultiPoint (also an empty   *)
(* one) and nowhere else; every coordinate of the sequence is emitted in   *)
(* the form that one query chose, so a preference change takes effect at   *)
(* the next sequence.                                                      *)
SequenceBegins ==
    {"point_begin", "linestring_begin", "circularstring_begin", "multipoint_begin"}

C7_QueryPerSequence ==
    LET c == Calls(out.log) IN
    /\ \A i \in 1..Len(c) :
           c[i].fn = "multi_dim" => i > 1 /\ c[i - 1].fn \in SequenceBegins
    /\ \A i \in 1..Len(c) :
           c[i].fn \in SequenceBegins =>
               IF i < Len(c) THEN c[i + 1].fn = "multi_dim" ELSE out.res = "Processor"
    /\ \A i \in 1..Len(c) :
           c[i].fn \in CoordFns =>
               \E q \in 1..(i - 1) :
                   /\ c[q].fn = "multi_dim"
                   /\ \A k \in (q + 1)..(i - 1) : c[k].fn \in CoordFns
                   /\ (c[i].fn = "coordinate") = c[q].params[1]

\* a Processor that changes its mind after the first query: two coordinates of one
\* ring in the first form, a later sequence in the other
C7_Witness ==
    LET c == Calls(out.log) IN
    /\ out.res = "Ok"
    /\ out.proc.flipAt = 1
    /\ \E i \in 1..(Len(c) - 1) : c[i].fn = "xy" /\ c[i + 1].fn = "xy"
    /\ \E i \in 1..Len(c) : c[i].fn = "coordinate"

----------------------------------------------------------------------------
(* C8: the bytes read do not depend on the Processor's preference.  When   *)
(* the caller decodes a value with a Processor that wants (x,y) only and   *)
(* then, having asked for all dimensions, decodes it again, the two walks  *)
(* make the same reads at the same offsets, end at the same offset with    *)
(* the same result, and make the same Processor calls except that one      *)
(* calls xy(x, y, idx) where the other calls coordinate(x, y, z, m, None,  *)
(* None, idx); each coordinate is 2 + has_z + has_m reads of 8 bytes, by   *)
(* the header that governs it.                                             *)

IsRead(e) == e.fn = "ioread"
ReadsOf(log) == SelectSeq(log, IsRead)

\* a Processor call without what the preference decides
Shape(e) ==
    IF e.fn \in CoordFns THEN Ev("coord", <<e.params[1], e.params[2], Idx(e)>>)
    ELSE IF e.fn = "multi_dim" THEN Ev("multi_dim", <<>>)
    ELSE e

CallShapes(log) == LET c == Calls(log) IN [i \in 1..Len(c) |-> Shape(c[i])]

SameWalk(a, b) ==
    /\ ReadsOf(a.log) = ReadsOf(b.log)
    /\ a.pos = b.pos
    /\ a.res = b.res
    /\ CallShapes(a.log) = CallShapes(b.log)

\* the header that governs log entry i: the last one decoded before it
RECURSIVE GoverningInfo(_, _)
GoverningInfo(log, i) ==
    IF log[i].fn \in HeaderFns THEN log[i].params[2] ELSE GoverningInfo(log, i - 1)

CoordWidths(o) ==
    \A i \in 1..Len(o.log) :
        o.log[i].fn \in CoordFns =>
            LET h == GoverningInfo(o.log, i)
                k == 2 + (IF h.has_z THEN 1 ELSE 0) + (IF h.has_m THEN 1 ELSE 0)
            IN  /\ i > k + 1
                /\ \A j \in 1..k : IsRead(o.log[i - j]) /\ o.log[i - j].params[2] = 8
                /\ ~(IsRead(o.log[i - k - 1]) /\ o.log[i - k - 1].params[2] = 8)
                /\ o.log[i].fn = "coordinate" =>
                       /\ (o.log[i].params[3] # <<>>) = h.has_z
                       /\ (o.log[i].params[4] # <<>>) = h.has_m

C8_SameBytes ==
    [][(/\ out.res # "NoRun"
        /\ out'.res # "NoRun"
        /\ out'.proc.multi # out.proc.multi) =>
            /\ SameWalk(out, out')
            /\ CoordWidths(out)
            /\ CoordWidths(out')]_vars

\* the second decode of a value, now with all dimensions, emitted a z and an m
C8_Witness ==
    /\ out.res = "Ok"
    /\ out.proc.multi
    /\ \E i \in 1..Len(out.log) :
           /\ out.log[i].fn = "coordinate"
           /\ out.log[i].params[3] # <<>>
           /\ out.log[i].params[4] # <<>>

----------------------------------------------------------------------------
(* C9: a GeoPackage header takes base kind, has_z and has_m from the       *)
(* embedded plain header (whose type code is read in the order its own     *)
(* marker names) and byte order, SRID and envelope from the prefix; after  *)
(* it every count and coordinate is read in the order of the header that   *)
(* governs it: the flags' order for the outer geometry and its untagged    *)
(* rings, also when the embedded marker names the other order, and each    *)
(* tagged member's own order for that member's body.                       *)

FlagsOrder(buf) == IF buf[4] % 2 = 0 THEN "BE" ELSE "LE"

\* log entry j reads a count or an ordinate: four or eight bytes, not a type code
\* (which directly follows its marker's one-byte read)
BodyRead(log, j) ==
    /\ IsRead(log[j])
    /\ log[j].params[2] >= 4
    /\ ~(IsRead(log[j - 1]) /\ log[j - 1].params[2] = 1)

C9_GpkgHeader ==
    (Ran /\ geom.dialect = "Geopackage") =>
        \A i \in 1..Len(out.log) :
            out.log[i].fn = "read_gpkg_header" =>
                LET info == out.log[i].params[2]
                    emb == out.log[i - 1]
                    order == FlagsOrder(out.buf)
                    n == Len(info.envelope)
                IN  /\ emb.fn = "read_wkb_header"
                    /\ DecodedAsPlain(out.buf, out.log, i - 1)
                    /\ info.base_type = emb.params[2].base_type
                    /\ info.has_z = emb.params[2].has_z
                    /\ info.has_m = emb.params[2].has_m
                    /\ info.endian = order
                    /\ info.srid = <<FromStream(SubSeq(out.buf, 5, 8), order)>>
                    /\ \A k \in 1..n :
                           info.envelope[k]
                               = FromStream(SubSeq(out.buf, 8 * k + 1, 8 * k + 8), order)
                    /\ emb.params[1] = 8 + 8 * n
                    /\ \A j \in (i + 1)..Len(out.log) :
                           BodyRead(out.log, j) =>
                               out.log[j].params[3] = GoverningInfo(out.log, j).endian

\* the embedded marker names the other order than the flags, and the walk went on to
\* read a count and coordinates
C9_Witness ==
    /\ geom.dialect = "Geopackage"
    /\ out.res = "Ok"
    /\ \E i \in 2..Len(out.log) :
           /\ out.log[i].fn = "read_gpkg_header"
           /\ out.log[i].params[2].endian # out.log[i - 1].params[2].endian
    /\ \E i \in 1..Len(out.log) : out.log[i].fn = "linestring_begin"
    /\ \E i \in 1..Len(out.log) : out.log[i].fn \in CoordFns

----------------------------------------------------------------------------
(* C10: every decoded header has an envelope of 0, 4, 6 or 8 values: none  *)
(* from the plain and extended decoders, and from the GeoPackage decoder   *)
(* the number the flags' bits 1-3 give by 0->0, 1->4, 2->6, 3->6, 4->8;    *)
(* with the codes 5, 6 and 7 the GeoPackage decoder fails with the         *)
(* geometry-format error having read the four prefix bytes only.           *)

EnvelopeCode(buf) == (buf[4] \div 2) % 8

C10_Envelope ==
    Ran =>
        /\ \A i \in 1..Len(out.log) :
               out.log[i].fn \in HeaderFns =>
                   LET n == Len(out.log[i].params[2].envelope) IN
                   /\ n \in {0, 4, 6, 8}
                   /\ out.log[i].fn \in {"read_wkb_header", "read_ewkb_header"} => n = 0
                   /\ out.log[i].fn = "read_gpkg_header" =>
                          /\ EnvelopeCode(out.buf) \in 0..4
                          /\ n = <<0, 4, 6, 6, 8>>[EnvelopeCode(out.buf) + 1]
        /\ (/\ geom.dialect = "Geopackage"
            /\ Len(geom.bytes) >= 4
            /\ SubSeq(geom.bytes, 1, 2) = <<71, 80>>
            /\ EnvelopeCode(geom.bytes) \in 5..7) =>
               /\ out.res = "GeometryFormat"
               /\ out.pos = 4
               /\ Len(ReadsOf(out.log)) = 4
               /\ Calls(out.log) = <<>>

\* a GeoPackage header with envelope code 3 and six envelope values
C10_Witness ==
    /\ geom.dialect = "Geopackage"
    /\ out.res = "Ok"
    /\ EnvelopeCode(out.buf) = 3
    /\ \E i \in 1..Len(out.log) :
           out.log[i].fn = "read_gpkg_header" /\ Len(out.log[i].params[2].envelope) = 6

----------------------------------------------------------------------------
(* C11: a byte source that ends before the last byte the decoder needs     *)
(* makes the call fail with the I/O error, never with the geometry-format  *)
(* error, the Processor's error or Ok. Whatever a call consumed, p bytes   *)
(* say, the same call on the same Processor over any shorter prefix of the *)
(* input (the empty one included) fails with the I/O error; so does, in    *)
(* particular, every strict prefix of an input decoded to Ok and consumed  *)
(* to its last byte. A call that fails with the I/O error has attempted a  *)
(* read past the end, and made no call after it.                           *)
Decode(dialect, bytes, p) ==
    CASE dialect = "Wkb"        -> process_wkb_geom(Start(bytes, p))
      [] dialect = "Ewkb"       -> process_ewkb_geom(Start(bytes, p))
      [] dialect = "Geopackage" -> process_gpkg_geom(Start(bytes, p))

C11_TruncatedIsIo ==
    Ran =>
        /\ out.res # "Io" =>
              \A k \in 0..(out.pos - 1) :
                  Decode(geom.dialect, SubSeq(out.buf, 1, k), out.proc).res = "Io"
        /\ out.res = "Io" =>
              /\ out.log[Len(out.log)] = Ev("Err", <<"Io">>)
              /\ \A i \in 1..(Len(out.log) - 1) : out.log[i].fn # "Err"
        /\ out.buf = <<>> => out.res = "Io"

\* an extended-dialect collection cut inside its member: the header, the SRID, the
\* count and the begin call are behind, and the whole input decodes to Ok
C11_Witness ==
    /\ out.res = "Io"
    /\ geom.dialect = "Ewkb"
    /\ geom.bytes \in CutEwkb
    /\ \E i \in 1..Len(out.log) : out.log[i].fn = "geometrycollection_begin"
    /\ \E full \in {TreeBytes("ewkb",
                        WithSrid(Tree(7, "BE", 0, "members", 0, <<>>, <<Leaf(1, "LE", 3)>>)))} :
            LET whole == Decode("Ewkb", full, out.proc) IN
            whole.res = "Ok" /\ whole.pos = Len(full) /\ Len(geom.bytes) < Len(full)

----------------------------------------------------------------------------
(* C12: a collection or sequence whose count field is 0, at element index  *)
(* idx. As stated: its begin call (count 0, index idx), once accepted, is  *)
(* followed directly by its end call (index idx): no read, no header and   *)
(* no other Processor call lies between them.                              *)
CountedBegins == BeginFns \ {"point_begin"}
QueryingBegins == {"multipoint_begin", "linestring_begin", "circularstring_begin"}
CountOf(e) == e.params[Len(e.params) - 1]
IsEmptyBegin(e) == e.fn \in CountedBegins /\ CountOf(e) = <<0, 0, 0, 0>>

\* log entry j is the end call that closes the begin call b
Closes(log, j, b) ==
    /\ j <= Len(log)
    /\ log[j].fn = EndOf(b.fn)
    /\ log[j].params = (IF Len(b.params) = 3 THEN <<b.params[1], Idx(b)>> ELSE <<Idx(b)>>)

\* the begin call at log entry i was accepted by the Processor
Accepted(log, i) == ~(i < Len(log) /\ log[i + 1] = Ev("Err", <<"Processor">>))

C12_EmptyDirect ==
    Ran =>
        \A i \in 1..Len(out.log) :
            (IsEmptyBegin(out.log[i]) /\ Accepted(out.log, i)) =>
                Closes(out.log, i + 1, out.log[i])

(* C12, as the code runs: the same, except that an empty MultiPoint,       *)
(* LineString or CircularString asks the Processor's multi_dim()           *)
(* preference once between its begin call and its end call; nothing else   *)
(* lies between them, and the eleven other kinds make the two calls back   *)
(* to back.                                                                *)
C12_EmptyPair ==
    Ran =>
        \A i \in 1..Len(out.log) :
            (IsEmptyBegin(out.log[i]) /\ Accepted(out.log, i)) =>
                IF out.log[i].fn \in QueryingBegins
                THEN /\ out.log[i + 1].fn = "multi_dim"
                     /\ Closes(out.log, i + 2, out.log[i])
                ELSE Closes(out.log, i + 1, out.log[i])

\* a polygon decoded to Ok whose second ring, at index 1, is empty
C12_Witness ==
    /\ out.res = "Ok"
    /\ \E i \in 1..(Len(out.log) - 2) :
          /\ out.log[i] = Ev("linestring_begin", <<FALSE, <<0, 0, 0, 0>>, 1>>)
          /\ out.log[i + 1].fn = "multi_dim"
          /\ out.log[i + 2] = Ev("linestring_end", <<FALSE, 1>>)
    /\ \E i \in 1..Len(out.log) : out.log[i].fn = "polygon_begin"

----------------------------------------------------------------------------
(* C13: in each dialect, a Point whose header has neither Z nor M and      *)
(* whose 16 coordinate bytes are all there, decoded for a Processor that   *)
(* accepts every call and wants (x,y) only, ends Ok after exactly three    *)
(* begin, end or coordinate calls: point_begin(0), xy with the x and the y *)
(* that follow the header (in the header's byte order) and index 0,        *)
(* point_end(0).                                                           *)
TopHeaderFn(dialect) ==
    CASE dialect = "Wkb"        -> "read_wkb_header"
      [] dialect = "Ewkb"       -> "read_ewkb_header"
      [] dialect = "Geopackage" -> "read_gpkg_header"

\* the outermost header the run decoded, as a set: empty when it decoded none
TopHeader ==
    LET at == {i \in 1..Len(out.log) : out.log[i].fn = TopHeaderFn(geom.dialect)} IN
    {out.log[i].params[2] : i \in {j \in at : \A k \in at : j <= k}}

\* the bytes a header takes in its dialect
HeaderLen(dialect, info) ==
    CASE dialect = "Wkb"        -> 5
      [] dialect = "Ewkb"       -> 5 + (IF info.srid = <<>> THEN 0 ELSE 4)
      [] dialect = "Geopackage" -> 8 + 8 * Len(info.envelope) + 5

IsEmission(e) == e.fn \in BeginFns \cup EndFns \cup CoordFns

PlainPoint(info) ==
    /\ info.base_type = "Point" /\ ~info.has_z /\ ~info.has_m
    /\ Len(out.buf) >= HeaderLen(geom.dialect, info) + 16

WantsXY(p) == ~p.multi /\ p.flipAt = 0 /\ p.failAt = 0

C13_PointEmissions ==
    Ran =>
        \A info \in TopHeader :
            (PlainPoint(info) /\ WantsXY(out.proc)) =>
                LET at == HeaderLen(geom.dialect, info)
                    x == FromStream(SubSeq(out.buf, at + 1, at + 8), info.endian)
                    y == FromStream(SubSeq(out.buf, at + 9, at + 16), info.endian)
                IN  /\ out.res = "Ok"
                    /\ out.pos = at + 16
                    /\ SelectSeq(out.log, IsEmission)
                           = <<Ev("point_begin", <<0>>), Ev("xy", <<x, y, 0>>),
                               Ev("point_end", <<0>>)>>

\* a GeoPackage point in little-endian flags order, decoded to its three calls
C13_Witness ==
    /\ Ran
    /\ geom.dialect = "Geopackage"
    /\ WantsXY(out.proc)
    /\ \E info \in TopHeader : PlainPoint(info) /\ info.endian = "LE"
    /\ Len(SelectSeq(out.log, IsEmission)) = 3
    /\ \E i \in 1..Len(out.log) :
          out.log[i] = Ev("xy", <<F64(0, 0), F64(1, 0), 0>>)

----------------------------------------------------------------------------
(* C14: the decoder caps the nesting depth: an input nested deeper than    *)
(* the cap is refused with the geometry-format error before the walker     *)
(* recurses further. Stated for a cap anywhere within the depths the       *)
(* inputs reach: no run has as many geometries open at once as the deepest *)
(* input holds, MaxNest collections around a point.                        *)
C14_DepthCapped ==
    Ran => Nested(out.log).depth <= MaxNest

----------------------------------------------------------------------------
(* C15: in every dialect, a MultiPoint with count n at element index idx   *)
(* that is decoded to the end shows in the run as multipoint_begin(n, idx),*)
(* the multi_dim() query, then for i = 0..n-1, in stream order, the reads  *)
(* of one member header followed by the reads of that member's ordinates   *)
(* (x, y, and z and m as the member's own header says, in the member's     *)
(* byte order) and one coordinate call carrying them with element index i, *)
(* then multipoint_end(idx): no point_begin, point_end or other call lies  *)
(* between.                                                                *)
ReadVal(buf, e) == FromStream(SubSeq(buf, e.params[1] + 1, e.params[1] + e.params[2]), e.params[3])

\* the first log entry from j on that is not a read
RECURSIVE PastReads(_, _)
PastReads(log, j) == IF j <= Len(log) /\ IsRead(log[j]) THEN PastReads(log, j + 1) ELSE j

\* the call process_coord makes for the ordinates read at log entries j+1 .. j+w
CoordCall(o, j, info, multi, i) ==
    LET x == ReadVal(o.buf, o.log[j + 1])
        y == ReadVal(o.buf, o.log[j + 2])
        z == IF info.has_z THEN <<ReadVal(o.buf, o.log[j + 3])>> ELSE <<>>
        m == IF info.has_m
             THEN <<ReadVal(o.buf, o.log[j + (IF info.has_z THEN 4 ELSE 3)])>> ELSE <<>>
    IN  IF multi THEN Ev("coordinate", <<x, y, z, m, <<>>, <<>>, i>>) ELSE Ev("xy", <<x, y, i>>)

\* members i .. n-1 of a MultiPoint lie in the log from entry j on: the entry after
\* the last member, or 0 when the log shows anything else
RECURSIVE AfterMembers(_, _, _, _, _)
AfterMembers(o, j, i, n, multi) ==
    IF i = n THEN j ELSE
    LET hj == PastReads(o.log, j) IN
    IF hj > Len(o.log) \/ hj < j + 2 \/ o.log[hj].fn \notin HeaderFns THEN 0 ELSE
    LET info == o.log[hj].params[2]
        w == 2 + (IF info.has_z THEN 1 ELSE 0) + (IF info.has_m THEN 1 ELSE 0)
    IN
    IF hj + w + 1 > Len(o.log) THEN 0 ELSE
    IF /\ o.log[hj].params[1] = o.log[j].params[1]
       /\ \A t \in 1..w : /\ IsRead(o.log[hj + t])
                          /\ o.log[hj + t].params[2] = 8
                          /\ o.log[hj + t].params[3] = info.endian
       /\ o.log[hj + w + 1] = CoordCall(o, hj, info, multi, i)
    THEN AfterMembers(o, hj + w + 2, i + 1, n, multi)
    ELSE 0

C15_MultiPointMembers ==
    out.res = "Ok" =>
        \A b \in 1..Len(out.log) :
            out.log[b].fn = "multipoint_begin" =>
                LET n == CountOf(out.log[b]) IN
                /\ n[1] = 0 /\ n[2] = 0 /\ n[3] = 0
                /\ b + 2 <= Len(out.log)
                /\ out.log[b + 1].fn = "multi_dim"
                /\ LET e == AfterMembers(out, b + 2, 0, n[4], out.log[b + 1].params[1])
                   IN  /\ e # 0
                       /\ e <= Len(out.log)
                       /\ out.log[e] = Ev("multipoint_end", <<Idx(out.log[b])>>)

\* a MultiPoint of two members decoded with all dimensions, the first member's
\* header naming another byte order and other dimensions than the parent's
C15_Witness ==
    /\ out.res = "Ok"
    /\ out.proc.multi
    /\ \E b \in 1..Len(out.log) :
          /\ out.log[b].fn = "multipoint_begin"
          /\ CountOf(out.log[b]) = <<0, 0, 0, 2>>
          /\ LET parent == GoverningInfo(out.log, b)
                 hj == PastReads(out.log, b + 2)
                 member == out.log[hj].params[2]
             IN  /\ member.has_z # parent.has_z
                 /\ member.endian # parent.endian
                 /\ \E c \in hj..Len(out.log) :
                       /\ out.log[c].fn = "coordinate"
                       /\ Idx(out.log[c]) = 0
                       /\ (out.log[c].params[3] # <<>>) = member.has_z

----------------------------------------------------------------------------
(* C16: a decode call ends, with Ok or with an error, after no more loop   *)
(* iterations and recursion levels than its input has bytes. Every         *)
(* iteration and every recursive call shows in the run as a header, a      *)
(* begin call or a coordinate call, and each of these comes right after a  *)
(* read (a begin call at most a header away from it): so the begin and     *)
(* coordinate calls of a run, and the geometries open at once, are no more *)
(* than the bytes read, which are no more than the input holds; a count    *)
(* above the input's length, 2^32-1 included, never ends Ok, and a run     *)
(* that is out of bytes ends with the I/O error at its next read.          *)
RECURSIVE BytesRead(_, _)
BytesRead(log, i) ==
    IF i = 0 THEN 0
    ELSE BytesRead(log, i - 1) + (IF IsRead(log[i]) THEN log[i].params[2] ELSE 0)

IsStep(e) == e.fn \in HeaderFns \cup BeginFns \cup CoordFns

\* log entry i comes right after a read, or after the header that came right after one
RECURSIVE AfterRead(_, _)
AfterRead(log, i) ==
    /\ i > 1
    /\ \/ IsRead(log[i - 1])
       \/ /\ log[i - 1].fn \in HeaderFns
          /\ log[i].fn \in {"point_begin", "read_gpkg_header"}
          /\ AfterRead(log, i - 1)

C16_ReadsBoundWork ==
    Ran =>
        LET read == BytesRead(out.log, Len(out.log)) IN
        /\ out.res \in {"Ok", "Io", "GeometryFormat", "Processor"}
        /\ \A i \in 1..Len(out.log) : IsStep(out.log[i]) => AfterRead(out.log, i)
        /\ read <= Len(out.buf)
        /\ Len(SelectSeq(out.log, IsStep)) <= read
        /\ Nested(out.log).depth <= read
        /\ \A i \in 1..Len(out.log) :
              (out.log[i].fn \in CountedBegins /\ LtCount(Len(out.buf), CountOf(out.log[i])))
                  => out.res # "Ok"
        /\ (out.res = "Io") = (Len(out.log) > 0 /\ out.log[Len(out.log)] = Ev("Err", <<"Io">>))
        /\ out.res = "Ok" => out.pos = read

\* a MultiPoint that announces 2^32-1 members and holds one: the member is decoded,
\* the next header read finds no byte and the call ends with the I/O error
C16_Witness ==
    /\ out.res = "Io"
    /\ out.proc.failAt = 0
    /\ \E b \in 1..Len(out.log) :
          /\ out.log[b].fn = "multipoint_begin"
          /\ CountOf(out.log[b]) = <<255, 255, 255, 255>>
          /\ \E c \in (b + 1)..Len(out.log) : out.log[c].fn \in CoordFns /\ Idx(out.log[c]) = 0
    /\ BytesRead(out.log, Len(out.log)) = Len(out.buf)
====
